---- MODULE Spec2Model ----
(***************************************************************************)
(* Vote recording in SmartPoll: the increment_vote database function (both *)
(* definitions the repository ships), the votes / poll_options tables, and *)
(* the three application paths that call the function.                      *)
(*                                                                         *)
(* A vote request is a process: it validates, then runs increment_vote as  *)
(* one READ COMMITTED transaction, then (on two of the paths) reads the    *)
(* option's counter in a separate query.  Requests interleave at every     *)
(* await of the TypeScript code and at every statement of the function      *)
(* that can wait for another transaction.                                   *)
(***************************************************************************)
EXTENDS Integers, FiniteSets, Sequences, TLC

(* ------------------------------ bounds -------------------------------- *)
\* number of vote requests in one behaviour
NumCalls == 2

Calls == 1..NumCalls

\* isRateLimited's limit and windowMs (in instants of the clock) at its call site
RateLimit == 2
WindowMs == 2
\* the clock of the rate limiter's runs stops here
MaxRateNow == 3
\* number of isRateLimited calls per identifier in one behaviour
MaxServed == 4

(* --------------------------- fixed test data --------------------------- *)
Users == {"u1", "u2"}
Polls == {"p1", "p2"}
Options == {"o1", "o2"}
NoTime == -1
\* no session / no userId in the request
NoUser == "none"
\* a pollId or optionId left out of the request
NoId == ""

\* ids of the option rows that poll creation and poll update insert, in the
\* order they are handed out
NewOptions == <<"n1", "n2">>
AllOptions == Options \cup {NewOptions[i] : i \in DOMAIN NewOptions}
\* the poll createPollOperation inserts
NewPoll == "p3"
\* the option text a creation or an update sets
Texts == {"t1"}
\* no row of poll_options has this id
NoRow == [poll |-> "none", text |-> "none"]

\* poll_options.poll_id
optPoll == [o \in Options |-> IF o = "o1" THEN "p1" ELSE "p2"]
\* polls.user_id (the poll's creator)
pollOwner == [p \in Polls |-> IF p = "p1" THEN "u1" ELSE "u2"]
\* polls.expires_at: p1 never expires, p2 expires at instant 1
expiresAt == [p \in Polls |-> IF p = "p1" THEN NoTime ELSE 1]

\* The clock stops one instant after the only expiry: from then on every
\* expiry test gives the same answer for ever.
MaxNow == expiresAt["p2"] + 1

Paths == {"votePoll", "route", "handleVote"}
\* handleVote and its cached variant share validation and recordVoteAtomically
HandlerPaths == {"handleVote", "handleVoteWithCache"}
\* voteHandler.ts CACHE_TTL (5 s), in instants of the clock: an entry is fresh
\* during the instant it was written in
CACHE_TTL == 1
Schemas == {"base", "security"}

NoVote == [id |-> 0, user |-> "none", poll |-> "none", option |-> "none"]
\* prior: a committed vote of this user on this poll existed when the request arrived
\* user is the user_id handed to increment_vote, session the authenticated caller
NoCall == [path |-> "none", poll |-> "none", option |-> "none", user |-> NoUser,
           session |-> NoUser, prior |-> FALSE]
\* newVoteCount: null / absent
NullCount == -1
\* voteCountCache.get(optionId) is undefined
NoEntry == [count |-> NullCount, timestamp |-> NoTime]
\* the identifiers the rate limiter is asked about
Identifiers == {"a", "b"}
NoOutcome == [kind |-> "none", newCount |-> NullCount]
\* what increment_vote handed back: err is the SQLSTATE of a raised error
\* ("none" when the call returned), row is the returned row ("void" for the
\* base function, which returns nothing), count is the counter value the
\* transaction wrote (the security function returns it as vote_count),
\* txExpired tells whether the poll's expires_at had passed at the
\* transaction's NOW()
NoRpc == [err |-> "none", row |-> "none", count |-> NullCount, txExpired |-> FALSE]

VARIABLES
  schema,     \* which increment_vote is installed
  now,        \* the clock
  votes,      \* committed rows of table votes
  optVotes,   \* committed poll_options.votes, per option
  pending,    \* per request: the vote row its open transaction has inserted
  call,       \* per request: its path and arguments
  pc,         \* per request: where it is
  rpcResult,  \* per request: what its increment_vote call returned or raised
  outcome,    \* per request: what the caller was told
  voteCountCache,  \* voteHandler.ts: per option, the cached counter and its timestamp
  requests,   \* RateLimiter.requests: per identifier, the timestamps it keeps
  served,     \* per identifier, every isRateLimited call so far: its time and its answer
  optRows     \* rows of poll_options (poll_id, option_text), per option id

\* the state of the server process, which no database step touches
procVars == <<voteCountCache, requests, served>>

vars == <<schema, now, votes, optVotes, pending, call, pc, rpcResult, outcome, procVars, optRows>>

(* ------------------------------ helpers ------------------------------- *)
\* rows of votes for one (user_id, poll_id)
VotesOf(u, p) == {v \in votes : v.user = u /\ v.poll = p}

\* the table without its UNIQUE(user_id, poll_id)
UniqueConflictDropped(u, p) == FALSE

\* UNIQUE(user_id, poll_id): a committed row with this key exists
UniqueConflict(u, p) == VotesOf(u, p) # {}

\* an open transaction of another request holds an uncommitted row with the key;
\* the INSERT waits for it to commit or roll back
InsertWaits(c, u, p) ==
  \E d \in Calls \ {c} : pending[d] # NoVote /\ pending[d].user = u /\ pending[d].poll = p

\* expiry as the security function decides it: expires_at <= NOW()
RpcExpired(p, t) == p \in Polls /\ expiresAt[p] # NoTime /\ expiresAt[p] <= t

\* expiry as POST /api/votes/record decides it: new Date(expires_at) < new Date()
RouteExpired(p, t) == expiresAt[p] # NoTime /\ expiresAt[p] < t

\* expiry as validatePollAndOption decides it: expiresAt && expiresAt <= now
HandlerExpired(p, t) == expiresAt[p] # NoTime /\ expiresAt[p] <= t

\* the option row exists in this poll
OptionOfPoll(o, p) == o \in Options /\ optPoll[o] = p

Init ==
  /\ schema \in Schemas
  /\ now = 0
  /\ votes = {}
  /\ optVotes = [o \in Options |-> 0]
  /\ pending = [c \in Calls |-> NoVote]
  /\ call = [c \in Calls |-> NoCall]
  /\ pc = [c \in Calls |-> "idle"]
  /\ rpcResult = [c \in Calls |-> NoRpc]
  /\ outcome = [c \in Calls |-> NoOutcome]
  /\ voteCountCache = [o \in Options |-> NoEntry]
  /\ requests = [id \in Identifiers |-> <<>>]
  /\ served = [id \in Identifiers |-> <<>>]
  /\ optRows = [o \in AllOptions |->
                 IF o \in Options THEN [poll |-> optPoll[o], text |-> "t0"] ELSE NoRow]

(* ------------------- the caller's side of the RPC --------------------- *)
\* The error text a path answers with when supabase.rpc returns `error`.
\* Every path first tests error.message.includes('already voted'); only the
\* exception the base function raises carries that text.  Otherwise
\* POST /api/votes/record rethrows into its catch (500), while votePollOperation
\* and handleVote rethrow into handleError, which maps the SQLSTATE.
\* PostgrestError.message: the storage engine's own text for a SQLSTATE
RawMessage(err) ==
  CASE err = "23505" -> "duplicate key value violates unique constraint"
    [] err = "23503" -> "insert or update violates foreign key constraint"
    [] err = "42501" -> "new row violates row-level security policy"
    [] err = "40001" -> "could not serialize access"
    [] err = "40P01" -> "deadlock detected"
    [] err = "57014" -> "canceling statement"
    [] err = "P0001" -> "User has already voted on this poll"
    [] OTHER -> "fetch failed"

\* a handleError that answers with the error's own message
MapDatabaseErrorMessage(err) == RawMessage(err)

\* mapDatabaseError(error).userMessage
MapDatabaseError(err) ==
  CASE err = "23505" -> "DuplicateKey"
    [] err = "23503" -> "RelatedNotFound"
    [] err = "23502" -> "RequiredMissing"
    [] err = "PGRST116" -> "NotFound"
    [] OTHER -> "DatabaseError"

\* handleError(e).error: an object with `code` and `message` goes through
\* mapDatabaseError, an Error answers with its own message, anything else
\* with 'An unexpected error occurred'
HandleError(e) ==
  IF e.shape = "postgrest" THEN MapDatabaseError(e.code)
  ELSE IF e.shape = "error" THEN e.message
  ELSE "UnexpectedError"

ClientErrorKind(path, err) ==
  IF err = "P0001" THEN "AlreadyVoted"
  ELSE IF path = "route" THEN "InternalError"
  ELSE HandleError([shape |-> "postgrest", code |-> err, message |-> RawMessage(err)])

\* Where a request goes once its increment_vote call is over.  No path looks
\* at the returned data: without `error` the vote counts as recorded.
AfterRpcPc(path, res) ==
  IF res.err # "none" THEN "done"
  ELSE IF path = "votePoll" THEN "done"
  ELSE IF path = "handleVoteWithCache" THEN "cachedcount"
  ELSE "readcount"

AfterRpcOutcome(path, res) ==
  IF res.err # "none" THEN [kind |-> ClientErrorKind(path, res.err), newCount |-> NullCount]
  ELSE IF path = "votePoll" THEN [kind |-> "accepted", newCount |-> NullCount]
  ELSE NoOutcome

\* the request's increment_vote call is over with result res
RpcReturns(c, res) ==
  /\ rpcResult' = [rpcResult EXCEPT ![c] = res]
  /\ pc' = [pc EXCEPT ![c] = AfterRpcPc(call[c].path, res)]
  /\ outcome' = [outcome EXCEPT ![c] = AfterRpcOutcome(call[c].path, res)]

\* The HTTP status POST /api/votes/record sends with each answer; every
\* exception of the handler ends in the catch block's 500.
RouteStatus(kind) ==
  CASE kind = "MissingIds" -> 400
    [] kind = "NotAuthenticated" -> 401
    [] kind = "PollNotFound" -> 404
    [] kind = "PollExpired" -> 410
    [] kind = "InvalidOption" -> 400
    [] kind = "AlreadyVoted" -> 409
    [] kind = "accepted" -> 201
    [] OTHER -> 500

(* ------------------------- request validation ------------------------- *)
\* POST /api/votes/record: poll lookup, expiry, option lookup
RouteValidate(p, o, t) ==
  IF RouteExpired(p, t) THEN "PollExpired"
  ELSE IF ~OptionOfPoll(o, p) THEN "InvalidOption"
  ELSE "ok"

\* handleVote: one joined query for poll and option, then expiry
ValidatePollAndOption(p, o, t) ==
  IF ~OptionOfPoll(o, p) THEN "PollOrOptionNotFound"
  ELSE IF HandlerExpired(p, t) THEN "PollExpired"
  ELSE "ok"

\* votePollOperation validates only the shape of the ids
PathValidate(path, p, o, t) ==
  IF path = "route" THEN RouteValidate(p, o, t)
  ELSE IF path \in HandlerPaths THEN ValidatePollAndOption(p, o, t)
  ELSE "ok"

\* The user_id a path hands to increment_vote.  POST /api/votes/record and
\* handleVote take userId from the request when it carries one and ask
\* supabase.auth.getUser() only otherwise; votePollOperation always asks.
EffectiveUser(path, s, b) == IF path # "votePoll" /\ b # NoUser THEN b ELSE s

\* The answer to a caller who is not signed in: 'Authentication required',
\* which votePollOperation gets from the Error getCurrentUser throws, through
\* handleError.
AuthFailure(path) ==
  IF path = "votePoll"
  THEN HandleError([shape |-> "error", code |-> "", message |-> "NotAuthenticated"])
  ELSE "NotAuthenticated"

\* a path's checks before the votes table is looked at, up to the first that
\* fails: the required ids, the caller, the poll, then PathValidate
Validate(path, p, o, s, b, t) ==
  IF p = NoId \/ o = NoId THEN "MissingIds"
  ELSE IF EffectiveUser(path, s, b) = NoUser THEN AuthFailure(path)
  ELSE IF path = "route" /\ p \notin Polls THEN "PollNotFound"
  ELSE PathValidate(path, p, o, t)

\* a handler that answers MissingIds and lets every other failed check fall through
RejectsOnlyMissingIds(v) == v = "MissingIds"

\* every failed check returns at once
Rejects(v) == v # "ok"

\* what follows a passed validation: only the route pre-checks the votes table
AfterValidatePc(path) == IF path = "route" THEN "precheck" ELSE "rpc"

\* Requests with the same arguments are interchangeable, so they are numbered
\* in the order of their arguments (any arrival order remains possible).
Rank(cl) ==
  (CASE cl.path = "votePoll" -> 0 [] cl.path = "route" -> 1 [] OTHER -> 2) * 8
  + (IF cl.poll = "p1" THEN 0 ELSE 4)
  + (IF cl.option = "o1" THEN 0 ELSE 2)
  + (IF cl.user = "u1" THEN 0 ELSE 1)

Numbered(c, cl) ==
  \A d \in Calls : pc[d] # "idle" =>
     /\ d < c => Rank(call[d]) <= Rank(cl)
     /\ d > c => Rank(cl) <= Rank(call[d])

\* A request with ids p and o arrives from the caller with session s (NoUser:
\* not signed in) and userId b in its body (NoUser: none), and validates.
Arrive(c, path, p, o, s, b) ==
  /\ pc[c] = "idle"
  /\ call' = [call EXCEPT ![c] =
        [path |-> path, poll |-> p, option |-> o, user |-> EffectiveUser(path, s, b),
         session |-> s, prior |-> UniqueConflict(EffectiveUser(path, s, b), p)]]
  /\ LET v == Validate(path, p, o, s, b, now) IN
       IF Rejects(v)
       THEN /\ pc' = [pc EXCEPT ![c] = "done"]
            /\ outcome' = [outcome EXCEPT ![c] = [kind |-> v, newCount |-> NullCount]]
       ELSE /\ pc' = [pc EXCEPT ![c] = AfterValidatePc(path)]
            /\ UNCHANGED outcome
  /\ UNCHANGED <<procVars, optRows, schema, now, votes, optVotes, pending, rpcResult>>

\* A signed-in user's request for an existing poll and an existing option.
Start(c, path, p, o, u) ==
  /\ Numbered(c, [path |-> path, poll |-> p, option |-> o, user |-> u])
  /\ Arrive(c, path, p, o, u, NoUser)

\* POST /api/votes/record: select from votes where user_id, poll_id
PreCheck(c) ==
  /\ pc[c] = "precheck"
  /\ IF UniqueConflict(call[c].user, call[c].poll)
     THEN /\ pc' = [pc EXCEPT ![c] = "done"]
          /\ outcome' = [outcome EXCEPT ![c] = [kind |-> "AlreadyVoted", newCount |-> NullCount]]
     ELSE /\ pc' = [pc EXCEPT ![c] = "rpc"]
          /\ UNCHANGED outcome
  /\ UNCHANGED <<procVars, optRows, schema, now, votes, optVotes, pending, call, rpcResult>>

(* --------------------------- increment_vote --------------------------- *)
\* The checks the security function makes before it writes; NOW() is the
\* start of the transaction.  The base function makes none.
RpcChecks(sch, p, o, u, t) ==
  IF sch = "base" THEN "ok"
  ELSE IF u = NoUser THEN "auth_required"
  ELSE IF p \notin Polls THEN "poll_not_found"
  ELSE IF RpcExpired(p, t) THEN "expired"
  ELSE IF ~OptionOfPoll(o, p) THEN "invalid_option"
  ELSE IF UniqueConflict(u, p) THEN "already_voted"
  ELSE "ok"

\* the transaction starts; the security function returns a row with
\* success = FALSE, and raises nothing, when a check fails
RpcBegin(c) ==
  /\ pc[c] = "rpc"
  /\ LET r == RpcChecks(schema, call[c].poll, call[c].option, call[c].user, now) IN
       IF r = "ok"
       THEN /\ pc' = [pc EXCEPT ![c] = "insert"]
            /\ rpcResult' = [rpcResult EXCEPT ![c].txExpired = RpcExpired(call[c].poll, now)]
            /\ UNCHANGED outcome
       ELSE RpcReturns(c, [err |-> "none", row |-> r, count |-> NullCount,
                          txExpired |-> RpcExpired(call[c].poll, now)])
  /\ UNCHANGED <<procVars, optRows, schema, now, votes, optVotes, pending, call>>

\* SQLSTATE the caller sees when the INSERT hits UNIQUE(user_id, poll_id): the
\* base function catches unique_violation and raises its own exception
\* (P0001, 'User has already voted on this poll'); the security function has
\* no handler, so 23505 reaches the caller
UniqueViolationErr(sch) == IF sch = "base" THEN "P0001" ELSE "23505"

\* Row-level security on INSERT INTO votes.  The base function runs with the
\* caller's rights under the policy WITH CHECK (auth.uid() = user_id), which
\* holds for signed-in callers only; the security function is SECURITY
\* DEFINER and inserts whatever user_id it is given.
InsertAllowed(sch, s, u) == sch = "security" \/ (s # NoUser /\ s = u)

\* SQLSTATE of the failing INSERT ("none": the row goes in): the policy is
\* checked first, then the unique index, then the foreign keys
InsertError(sch, s, u, p, o) ==
  IF ~InsertAllowed(sch, s, u) THEN "42501"
  ELSE IF UniqueConflict(u, p) THEN UniqueViolationErr(sch)
  ELSE IF p \notin Polls \/ o \notin Options THEN "23503"
  ELSE "none"

\* INSERT INTO votes
RpcInsert(c) ==
  /\ pc[c] = "insert"
  /\ InsertAllowed(schema, call[c].session, call[c].user)
        => ~InsertWaits(c, call[c].user, call[c].poll)
  /\ IF InsertError(schema, call[c].session, call[c].user, call[c].poll, call[c].option) # "none"
     THEN /\ RpcReturns(c, [rpcResult[c] EXCEPT !.err =
                 InsertError(schema, call[c].session, call[c].user, call[c].poll, call[c].option)])
          /\ UNCHANGED pending
     ELSE /\ pending' = [pending EXCEPT ![c] =
                [id |-> c, user |-> call[c].user, poll |-> call[c].poll, option |-> call[c].option]]
          /\ pc' = [pc EXCEPT ![c] = "update"]
          /\ UNCHANGED <<rpcResult, outcome>>
  /\ UNCHANGED <<procVars, optRows, schema, now, votes, optVotes, call>>

\* Row-level security on poll_options.  The base function runs with the
\* caller's rights, and its only UPDATE policy on poll_options admits the
\* poll's creator; rows the policy hides are skipped without an error.  The
\* security function is SECURITY DEFINER and updates the row for anyone.
UpdateReachesRow(sch, u, o) == sch = "security" \/ pollOwner[optPoll[o]] = u

\* the counter after UPDATE poll_options SET votes = votes + 1 WHERE id = o
Incremented(sch, u, o) ==
  IF UpdateReachesRow(sch, u, o) THEN optVotes[o] + 1 ELSE optVotes[o]

\* the row the function returns after its writes
RecordedRow(sch) == IF sch = "base" THEN "void" ELSE "recorded"

\* UPDATE poll_options (under the row lock, on the latest committed value),
\* the read-back of the security function, and COMMIT
RpcCommit(c) ==
  /\ pc[c] = "update"
  /\ votes' = votes \cup {pending[c]}
  /\ optVotes' = [optVotes EXCEPT ![call[c].option] = Incremented(schema, call[c].user, call[c].option)]
  /\ pending' = [pending EXCEPT ![c] = NoVote]
  /\ RpcReturns(c, [rpcResult[c] EXCEPT !.row = RecordedRow(schema),
                       !.count = Incremented(schema, call[c].user, call[c].option)])
  /\ UNCHANGED <<procVars, optRows, schema, now, call>>

\* a rollback that leaves the inserted row in the table
RolledBackKeepsRow(row) == row

\* what is left of the transaction's inserted row after a rollback
RolledBack(row) == NoVote

\* The open transaction is cancelled or fails after its INSERT (statement
\* timeout, lost connection): it rolls back and the caller gets an error.
RpcRollback(c) ==
  /\ pc[c] = "update"
  /\ pending' = [pending EXCEPT ![c] = RolledBack(pending[c])]
  /\ votes' = IF RolledBack(pending[c]) = NoVote THEN votes ELSE votes \cup {RolledBack(pending[c])}
  /\ RpcReturns(c, [rpcResult[c] EXCEPT !.err = "57014"])
  /\ UNCHANGED <<procVars, optRows, schema, now, optVotes, call>>

(* --------------------------- the count read --------------------------- *)
\* newVoteCount as each path builds it from the separate read of
\* poll_options.votes: `votes || null` in the route, `votes || 0` in handleVote
ReportedCount(path, n) ==
  IF path = "route" /\ n = 0 THEN NullCount ELSE n

ReadCount(c) ==
  /\ pc[c] = "readcount"
  /\ pc' = [pc EXCEPT ![c] = "done"]
  /\ outcome' = [outcome EXCEPT ![c] =
        [kind |-> "accepted", newCount |-> ReportedCount(call[c].path, optVotes[call[c].option])]]
  /\ UNCHANGED <<procVars, optRows, schema, now, votes, optVotes, pending, call, rpcResult>>

Tick ==
  /\ now < MaxNow
  /\ now' = now + 1
  /\ UNCHANGED <<procVars, optRows, schema, votes, optVotes, pending, call, pc, rpcResult, outcome>>

Next ==
  \/ Tick
  \/ \E c \in Calls, path \in Paths, p \in Polls, o \in Options, u \in Users :
        Start(c, path, p, o, u)
  \/ \E c \in Calls : PreCheck(c)
  \/ \E c \in Calls : RpcBegin(c)
  \/ \E c \in Calls : RpcInsert(c)
  \/ \E c \in Calls : RpcCommit(c)
  \/ \E c \in Calls : RpcRollback(c)
  \/ \E c \in Calls : ReadCount(c)

Spec == Init /\ [][Next]_vars

(* ---------------- failures of the call and of the response -------------- *)
\* SQLSTATEs of a serialization failure and of a detected deadlock
TransientErrors == {"40001", "40P01"}

\* The open transaction is the victim of a serialization failure or of a
\* deadlock: it rolls back and the SQLSTATE reaches the caller.
RpcConflict(c, err) ==
  /\ pc[c] = "update"
  /\ pending' = [pending EXCEPT ![c] = RolledBack(pending[c])]
  /\ RpcReturns(c, [rpcResult[c] EXCEPT !.err = err])
  /\ UNCHANGED <<procVars, optRows, schema, now, votes, optVotes, call>>

\* The transaction commits but its response never reaches the caller (the
\* request is cancelled or times out while the commit is under way):
\* supabase.rpc resolves with an `error` that carries no SQLSTATE.
RpcCommitLost(c) ==
  /\ pc[c] = "update"
  /\ votes' = votes \cup {pending[c]}
  /\ optVotes' = [optVotes EXCEPT ![call[c].option] = Incremented(schema, call[c].user, call[c].option)]
  /\ pending' = [pending EXCEPT ![c] = NoVote]
  /\ RpcReturns(c, [rpcResult[c] EXCEPT !.err = "fetch_failed", !.row = RecordedRow(schema),
                       !.count = Incremented(schema, call[c].user, call[c].option)])
  /\ UNCHANGED <<procVars, optRows, schema, now, call>>

\* vote requests, their transient failures and their lost responses
NextRetry ==
  \/ Next
  \/ \E c \in Calls, err \in TransientErrors : RpcConflict(c, err)
  \/ \E c \in Calls : RpcCommitLost(c)

RetrySpec == Init /\ [][NextRetry]_vars

(* ------------------ the votes table through the data API --------------- *)
\* rows of user_roles with role = 'admin': none of the model's users is one
Admins == {}

\* The row-level security policies of table votes for UPDATE and DELETE, for
\* the signed-in user u and the row v.  Base schema: "Users cannot update
\* votes" USING (false), "Users can delete their own votes" USING
\* (auth.uid() = user_id).  Security schema: no UPDATE policy at all, "Only
\* admins can delete votes".
RowPolicy(sch, op, u, v) ==
  IF op = "update" THEN FALSE
  ELSE IF sch = "base" THEN u = v.user
  ELSE u \in Admins

\* A signed-in user sends UPDATE votes SET option_id = o or DELETE FROM votes
\* for the row v with the application's public key; a row the policy hides
\* is skipped without an error.  No trigger touches poll_options.
RowOp(u, op, v, o) ==
  /\ v \in votes
  /\ votes' = IF ~RowPolicy(schema, op, u, v) THEN votes
              ELSE IF op = "delete" THEN votes \ {v}
              ELSE (votes \ {v}) \cup {[v EXCEPT !.option = o]}
  /\ UNCHANGED <<procVars, optRows, schema, now, optVotes, pending, call, pc, rpcResult, outcome>>

\* vote requests and the data API
NextOps ==
  \/ Next
  \/ \E u \in Users, op \in {"update", "delete"}, v \in votes, o \in Options : RowOp(u, op, v, o)

OpsSpec == Init /\ [][NextOps]_vars

(* ------------------ one request with every kind of input --------------- *)
\* pollId / optionId of a request: an existing id, an unknown id, or none
ReqPolls == Polls \cup {"p0", NoId}
ReqOptions == Options \cup {"o0", NoId}
\* the caller's session and the userId of the request body
Sessions == Users \cup {NoUser}

\* The one request this specification follows; the other requests of the
\* system appear through OtherVote.
Request(c, path, p, o, s, b) ==
  /\ \A d \in Calls : c <= d /\ pc[d] = "idle"
  /\ b # NoUser => path # "votePoll"
  /\ Arrive(c, path, p, o, s, b)

\* Another session's increment_vote commits a vote of user u for option o of
\* the open poll p.
OtherVote(u, p, o) ==
  /\ OptionOfPoll(o, p)
  /\ ~RpcExpired(p, now)
  /\ ~UniqueConflict(u, p)
  /\ \A d \in Calls : ~(pending[d] # NoVote /\ pending[d].user = u /\ pending[d].poll = p)
  /\ votes' = votes \cup {[id |-> 0, user |-> u, poll |-> p, option |-> o]}
  /\ optVotes' = [optVotes EXCEPT ![o] = Incremented(schema, u, o)]
  /\ UNCHANGED <<procVars, optRows, schema, now, pending, call, pc, rpcResult, outcome>>

NextReq ==
  \/ Tick
  \/ \E c \in Calls, path \in Paths, p \in ReqPolls, o \in ReqOptions, s \in Sessions, b \in Sessions :
        Request(c, path, p, o, s, b)
  \/ \E u \in Users, p \in Polls, o \in Options : OtherVote(u, p, o)
  \/ \E c \in Calls : PreCheck(c)
  \/ \E c \in Calls : RpcBegin(c)
  \/ \E c \in Calls : RpcInsert(c)
  \/ \E c \in Calls : RpcCommit(c)
  \/ \E c \in Calls : RpcRollback(c)
  \/ \E c \in Calls, err \in TransientErrors : RpcConflict(c, err)
  \/ \E c \in Calls : RpcCommitLost(c)
  \/ \E c \in Calls : ReadCount(c)

ReqSpec == Init /\ [][NextReq]_vars

(* --------------------- handleVoteWithCache's counter -------------------- *)
\* getCachedVoteCount: the cached count when the entry is younger than
\* CACHE_TTL, else the counter read from poll_options, which replaces the entry
CacheFresh(o, t) ==
  voteCountCache[o] # NoEntry /\ (t - voteCountCache[o].timestamp) < CACHE_TTL

\* a handler that takes a fresh entry for the sign of a recorded vote
GetCachedVoteCountDeciding(c) ==
  /\ pc[c] = "cachedcount"
  /\ pc' = [pc EXCEPT ![c] = "done"]
  /\ LET o == call[c].option IN
       IF CacheFresh(o, now)
       THEN /\ outcome' = [outcome EXCEPT ![c] = [kind |-> "AlreadyVoted", newCount |-> NullCount]]
            /\ UNCHANGED voteCountCache
       ELSE /\ outcome' = [outcome EXCEPT ![c] = [kind |-> "accepted", newCount |-> optVotes[o]]]
            /\ voteCountCache' = [voteCountCache EXCEPT ![o] =
                  [count |-> optVotes[o], timestamp |-> now]]
  /\ UNCHANGED <<schema, now, votes, optVotes, pending, call, rpcResult, requests, served, optRows>>

\* The last step of handleVoteWithCache.  recordVoteAtomically has read the
\* counter before (a read whose value this path drops); newVoteCount comes
\* from getCachedVoteCount.
GetCachedVoteCount(c) ==
  /\ pc[c] = "cachedcount"
  /\ pc' = [pc EXCEPT ![c] = "done"]
  /\ LET o == call[c].option IN
       IF CacheFresh(o, now)
       THEN /\ outcome' = [outcome EXCEPT ![c] =
                  [kind |-> "accepted", newCount |-> voteCountCache[o].count]]
            /\ UNCHANGED voteCountCache
       ELSE /\ outcome' = [outcome EXCEPT ![c] = [kind |-> "accepted", newCount |-> optVotes[o]]]
            /\ voteCountCache' = [voteCountCache EXCEPT ![o] =
                  [count |-> optVotes[o], timestamp |-> now]]
  /\ UNCHANGED <<schema, now, votes, optVotes, pending, call, rpcResult, requests, served, optRows>>

\* clearVoteCountCache()
ClearVoteCountCache ==
  /\ \E o \in Options : voteCountCache[o] # NoEntry
  /\ voteCountCache' = [o \in Options |-> NoEntry]
  /\ UNCHANGED <<schema, now, votes, optVotes, pending, call, pc, rpcResult, outcome, requests, served, optRows>>

\* A request by the signed-in user u, sent when every earlier request is
\* over: a sequential execution.
SeqRequest(c, path, p, o, u) ==
  /\ \A d \in Calls : (d < c => pc[d] = "done") /\ (d > c => pc[d] = "idle")
  /\ Arrive(c, path, p, o, u, NoUser)

NextCache ==
  \/ Tick
  \/ \E c \in Calls, path \in HandlerPaths, p \in Polls, o \in Options, u \in Users :
        SeqRequest(c, path, p, o, u)
  \/ \E c \in Calls : RpcBegin(c)
  \/ \E c \in Calls : RpcInsert(c)
  \/ \E c \in Calls : RpcCommit(c)
  \/ \E c \in Calls : ReadCount(c)
  \/ \E c \in Calls : GetCachedVoteCount(c)
  \/ ClearVoteCountCache

CacheSpec == Init /\ [][NextCache]_vars

(* ------------------ poll creation and poll update ----------------------- *)
\* the first k ids of NewOptions that no row has yet
FreeIds == {i \in DOMAIN NewOptions : optRows[NewOptions[i]] = NoRow}
FirstFree(k) == {NewOptions[i] : i \in {j \in FreeIds : Cardinality({h \in FreeIds : h < j}) < k}}

\* poll_options.votes after rows with the ids N were inserted with votes: 0;
\* neither createPollOperation nor an update writes another counter
VotesWithNew(N) ==
  [o \in DOMAIN optVotes \cup N |-> IF o \in N THEN 0 ELSE optVotes[o]]

\* createPollOperation: the poll row, then one option row per option with
\* votes: 0 (two options here)
CreatePollOperation(u, t) ==
  /\ \A o \in AllOptions : optRows[o].poll # NewPoll
  /\ Cardinality(FreeIds) >= 2
  /\ LET N == FirstFree(2) IN
       /\ optRows' = [o \in AllOptions |-> IF o \in N THEN [poll |-> NewPoll, text |-> t] ELSE optRows[o]]
       /\ optVotes' = VotesWithNew(N)
  /\ UNCHANGED <<procVars, schema, now, votes, pending, call, pc, rpcResult, outcome>>

\* the option rows of poll p
ExistingOptionIds(p) == {o \in AllOptions : optRows[o].poll = p}

\* The entries of an update's option list that end as an UPDATE of the text.
\* updatePollOperation: those whose id is among the poll's existing options;
\* PUT /api/polls/[id]: those with an id, through .eq('id').eq('poll_id').
EntriesToUpdate(via, p, E) == {e \in E : e.id \in ExistingOptionIds(p)}

\* The entries that end as an INSERT of a new row of poll p.
\* updatePollOperation: every entry without an id of the poll;
\* PUT: every entry without an id.
EntriesToInsert(via, p, E) ==
  IF via = "put" THEN {e \in E : e.id = NoId} ELSE {e \in E : e.id \notin ExistingOptionIds(p)}

\* an update that replaces the poll's option rows: every row of the poll is
\* written again with votes: 0
VotesAfterReplace(p, N) ==
  [o \in DOMAIN optVotes \cup N |->
     IF o \in N \/ (o \in AllOptions /\ optRows[o].poll = p) THEN 0 ELSE optVotes[o]]

\* poll_options.votes after an update of poll p that inserted the rows N
VotesAfterUpdate(p, N) == VotesWithNew(N)

\* updatePollOperation (via = "operation") and PUT /api/polls/[id] (via =
\* "put") by the signed-in user u for poll p with the option entries E, all
\* with the text t.  Both refuse a caller who does not own the poll.
UpdatePoll(via, u, p, E, t) ==
  /\ Cardinality(FreeIds) >= Cardinality(EntriesToInsert(via, p, E))
  /\ LET N == FirstFree(Cardinality(EntriesToInsert(via, p, E)))
         U == {e.id : e \in EntriesToUpdate(via, p, E)}
     IN IF u # pollOwner[p]
        THEN UNCHANGED <<optRows, optVotes>>
        ELSE /\ optRows' = [o \in AllOptions |->
                    IF o \in N THEN [poll |-> p, text |-> t]
                    ELSE IF o \in U THEN [optRows[o] EXCEPT !.text = t]
                    ELSE optRows[o]]
             /\ optVotes' = VotesAfterUpdate(p, N)
  /\ UNCHANGED <<procVars, schema, now, votes, pending, call, pc, rpcResult, outcome>>

\* the option lists of an update: at least two entries, each naming an
\* existing option or none
OptionLists ==
  {E \in SUBSET {[id |-> i] : i \in Options \cup {NoId}} : Cardinality(E) >= 2}

\* votes through votePoll, one after the other, between poll creations and
\* poll updates
NextPolls ==
  \/ \E c \in Calls, p \in Polls, o \in Options, u \in Users : SeqRequest(c, "votePoll", p, o, u)
  \/ \E c \in Calls : RpcBegin(c)
  \/ \E c \in Calls : RpcInsert(c)
  \/ \E c \in Calls : RpcCommit(c)
  \/ \E u \in Users, t \in Texts : CreatePollOperation(u, t)
  \/ \E via \in {"operation", "put"}, u \in Users, p \in Polls, E \in OptionLists, t \in Texts :
        UpdatePoll(via, u, p, E, t)

PollSpec == Init /\ [][NextPolls]_vars

(* ------------------- the storage client cannot be made ------------------ *)
\* What a path does with the Error('Database connection failed') that
\* getSupabaseClient() throws.  votePollOperation calls it inside its try
\* block and hands the Error to handleError; handleVote calls it before its
\* try block, so the promise rejects.
ClientFailureOutcome(path) ==
  IF path = "votePoll"
  THEN HandleError([shape |-> "error", code |-> "", message |-> "DatabaseConnectionFailed"])
  ELSE "Thrown"

\* The first request of the server process (no client instance is kept yet)
\* names both ids, and creating the client throws.
RequestWithoutClient(c, path, p, o, s) ==
  /\ \A d \in Calls : c <= d /\ pc[d] = "idle"
  /\ call' = [call EXCEPT ![c] = [path |-> path, poll |-> p, option |-> o, user |-> s,
                                   session |-> s, prior |-> UniqueConflict(s, p)]]
  /\ pc' = [pc EXCEPT ![c] = "done"]
  /\ outcome' = [outcome EXCEPT ![c] =
        [kind |-> IF path = "votePoll" /\ s = NoUser THEN AuthFailure(path)
                  ELSE ClientFailureOutcome(path),
         newCount |-> NullCount]]
  /\ UNCHANGED <<procVars, optRows, schema, now, votes, optVotes, pending, rpcResult>>

\* one request with every kind of input, and a client that may fail
NextClient ==
  \/ NextReq
  \/ \E c \in Calls, path \in {"votePoll", "handleVote"}, p \in Polls, o \in Options, s \in Sessions :
        RequestWithoutClient(c, path, p, o, s)

ClientSpec == Init /\ [][NextClient]_vars

(* ---------------------- the count read fails ---------------------------- *)
\* newVoteCount when the read of poll_options.votes comes back with an error
\* or without a row: `updatedOption?.votes || null` in the route,
\* `optionData?.votes || 0` in recordVoteAtomically
FailedReadCount(path) == IF path = "route" THEN NullCount ELSE 0

\* a handler that throws the read's error into its catch block
ReadCountThrows(c) ==
  /\ pc[c] = "readcount"
  /\ pc' = [pc EXCEPT ![c] = "done"]
  /\ outcome' = [outcome EXCEPT ![c] =
        [kind |-> ClientErrorKind(call[c].path, "fetch_failed"), newCount |-> NullCount]]
  /\ UNCHANGED <<procVars, optRows, schema, now, votes, optVotes, pending, call, rpcResult>>

\* The read after increment_vote fails or finds no row: the route only logs
\* updateError, recordVoteAtomically does not look at it.
ReadCountFails(c) ==
  /\ pc[c] = "readcount"
  /\ pc' = [pc EXCEPT ![c] = "done"]
  /\ outcome' = [outcome EXCEPT ![c] =
        [kind |-> "accepted", newCount |-> FailedReadCount(call[c].path)]]
  /\ UNCHANGED <<procVars, optRows, schema, now, votes, optVotes, pending, call, rpcResult>>

\* one request with every kind of input, and a count read that may fail
NextRead ==
  \/ NextReq
  \/ \E c \in Calls : ReadCountFails(c)

ReadSpec == Init /\ [][NextRead]_vars

(* ------------------------------ RateLimiter ----------------------------- *)
\* requests.filter(timestamp => timestamp > windowStart)
RecentRequests(ts, windowStart) == SelectSeq(ts, LAMBDA x : x > windowStart)

\* a limiter that admits one call more
LimitExceededAbove(n, limit) == n > limit

\* recentRequests.length >= limit
LimitExceeded(n, limit) == n >= limit

\* RateLimiter.isRateLimited(id, limit, windowMs) at the instant now: a
\* limited call returns before anything is stored
IsRateLimited(id, limit, windowMs) ==
  /\ Len(served[id]) < MaxServed
  /\ LET recentRequests == RecentRequests(requests[id], now - windowMs)
         limited == LimitExceeded(Len(recentRequests), limit)
     IN /\ requests' = IF limited THEN requests
                        ELSE [requests EXCEPT ![id] = Append(recentRequests, now)]
        /\ served' = [served EXCEPT ![id] = Append(@, [time |-> now, limited |-> limited])]
  /\ UNCHANGED <<voteCountCache, optRows, schema, now, votes, optVotes, pending, call, pc,
                 rpcResult, outcome>>

\* RateLimiter.cleanup(): drops the timestamps older than one hour, the
\* window of the call site
Cleanup ==
  /\ requests' = [id \in Identifiers |-> RecentRequests(requests[id], now - WindowMs)]
  /\ requests' # requests
  /\ UNCHANGED <<voteCountCache, served, optRows, schema, now, votes, optVotes, pending, call,
                 pc, rpcResult, outcome>>

\* time passes between the calls
RateTick ==
  /\ now < MaxRateNow
  /\ now' = now + 1
  /\ UNCHANGED <<procVars, optRows, schema, votes, optVotes, pending, call, pc, rpcResult, outcome>>

NextRate ==
  \/ RateTick
  \/ \E id \in Identifiers : IsRateLimited(id, RateLimit, WindowMs)
  \/ Cleanup

RateSpec == Init /\ [][NextRate]_vars

(* ===================================================================== *)
(*                              properties                                *)
(* ===================================================================== *)
\* no request is in flight
Quiescent == \A c \in Calls : pc[c] \in {"idle", "done"}

\* the caller was told its vote was recorded
Accepted(c) == outcome[c].kind = "accepted"

\* the request's increment_vote transaction committed a vote row
Recorded(c) == \E v \in votes : v.id = c

\* the request's transaction was cancelled before commit
Cancelled(c) == rpcResult[c].err = "57014"

\* the request called increment_vote
CalledRpc(c) == pc[c] \in {"insert", "update", "readcount"} \/ rpcResult[c] # NoRpc

\* committed vote rows of an option
RowsOf(o) == {v \in votes : v.option = o}

\* requests that have arrived for one (user, poll)
CallsFor(u, p) == {c \in Calls : pc[c] # "idle" /\ call[c].user = u /\ call[c].poll = p}

\* requests that have arrived for one option
CallsOn(o) == {c \in Calls : pc[c] # "idle" /\ call[c].option = o}

\* the error texts that tell the caller the option is not one of the poll:
\* 'Invalid option for this poll' (route) and, from handleVote's joined query,
\* 'Poll or option not found'
InvalidOptionKinds == {"InvalidOption", "PollOrOptionNotFound"}

\* a request for an option of its poll, on a poll that is still open now
ValidNow(c) ==
  /\ OptionOfPoll(call[c].option, call[c].poll)
  /\ ~RpcExpired(call[c].poll, now)

(* C1: when the requests for one (user, poll) all called increment_vote with an
   option of the poll, on a poll still open, none was cancelled, and all are
   over, exactly one was accepted and every other one was answered
   AlreadyVoted. *)
C1_ExactlyOneAccepted ==
  \A u \in Users, p \in Polls :
    LET S == CallsFor(u, p) IN
      ( /\ S # {}
        /\ \A c \in S : pc[c] = "done" /\ CalledRpc(c) /\ ValidNow(c) /\ ~Cancelled(c) )
      => /\ Cardinality({c \in S : Accepted(c)}) = 1
         /\ \A c \in S : outcome[c].kind \in {"accepted", "AlreadyVoted"}

(* C2: the votes table never holds two rows for the same (user_id, poll_id). *)
C2_OneVotePerUserPoll ==
  \A v \in votes, w \in votes : (v.user = w.user /\ v.poll = w.poll) => v = w

\* a second request for a pair that already has its row was refused by the constraint
C2_Witness ==
  \E c \in Calls : /\ rpcResult[c].err \in {"P0001", "23505"}
                   /\ VotesOf(call[c].user, call[c].poll) # {}

(* C3: once no request is in flight, every option's counter equals the number
   of committed vote rows that name the option. *)
C3_TallyAtQuiescence ==
  Quiescent => \A o \in Options : optVotes[o] = Cardinality(RowsOf(o))

\* this step ends request c without a committed vote: a validation or pre-check
\* rejection, a FALSE row, a raised error or a cancel
EndsRefused(c) ==
  /\ pc[c] # "done"
  /\ \/ pc'[c] = "done" /\ outcome'[c].kind # "accepted"
     \/ rpcResult'[c] # rpcResult[c] /\ rpcResult'[c].row \notin {"void", "recorded"}
        /\ pc'[c] \in {"done", "readcount"}

(* C4: a request that is rejected, fails or is cancelled before commit leaves
   the votes table and every counter as they were: the step that ends it
   changes neither, it leaves no uncommitted row behind, and no committed row
   is ever one it inserted. *)
C4_NoPartialEffects ==
  [][ \A c \in Calls :
        EndsRefused(c) =>
          /\ votes' = votes
          /\ optVotes' = optVotes
          /\ pending'[c] = NoVote
          /\ ~\E v \in votes' : v.id = c ]_vars

\* a request was cancelled after its INSERT, while another one's vote stands
C4_Witness ==
  \E c \in Calls, d \in Calls :
     /\ Cancelled(c) /\ pc[c] = "done" /\ ~Recorded(c)
     /\ Recorded(d)

(* C5: a request whose option belongs to another poll (the poll itself still
   open, so that no earlier check answers first) ends with InvalidOption, is
   not reported as success and inserts no vote row. *)
C5_ForeignOptionRejected ==
  \A c \in Calls :
    ( /\ pc[c] = "done"
      /\ ~OptionOfPoll(call[c].option, call[c].poll)
      /\ ~RpcExpired(call[c].poll, now) /\ ~Cancelled(c) )
    => /\ outcome[c].kind \in InvalidOptionKinds
       /\ ~Recorded(c)

(* C6: every committed vote row names an option of the row's own poll. *)
C6_OptionOfSamePoll ==
  \A v \in votes : OptionOfPoll(v.option, v.poll)

(* C7: a request whose increment_vote transaction ran when the poll's
   expires_at had passed ends with PollExpired and records nothing. *)
C7_ExpiredAtTransaction ==
  \A c \in Calls :
    (pc[c] = "done" /\ CalledRpc(c) /\ rpcResult[c].txExpired)
    => /\ outcome[c].kind = "PollExpired"
       /\ ~Recorded(c)

(* C8: a request that arrives when its user already has a committed vote on
   the poll (for an option of the poll, the poll still open, not cancelled) is
   answered AlreadyVoted and records nothing. *)
C8_SecondVoteRejected ==
  \A c \in Calls :
    (pc[c] = "done" /\ call[c].prior /\ ValidNow(c) /\ ~Cancelled(c))
    => /\ outcome[c].kind = "AlreadyVoted"
       /\ ~Recorded(c)

\* the request reports a newVoteCount (votePollOperation reports none)
ReportsCount(c) == call[c].path \in {"route", "handleVote"}

(* C9: every accepted request that reports a count reports the counter value
   its own transaction wrote, so two accepted requests for the same option
   never report the same newCount. *)
C9_OwnCount ==
  /\ \A c \in Calls :
       (pc[c] = "done" /\ Accepted(c) /\ Recorded(c) /\ ReportsCount(c))
       => outcome[c].newCount = rpcResult[c].count
  /\ \A c \in Calls, d \in Calls :
       ( /\ c # d /\ pc[c] = "done" /\ pc[d] = "done"
         /\ Accepted(c) /\ Accepted(d) /\ Recorded(c) /\ Recorded(d)
         /\ ReportsCount(c) /\ ReportsCount(d)
         /\ call[c].option = call[d].option )
       => outcome[c].newCount # outcome[d].newCount

(* C10: when all the requests for an option come from distinct users without
   an earlier vote, for an option of a poll still open, none is cancelled and
   all are over, every one is accepted and the counter is its initial value
   (0) plus their number. *)
C10_AllDistinctUsersCounted ==
  \A o \in Options :
    LET S == CallsOn(o) IN
      ( /\ Quiescent
        /\ S # {}
        /\ \A c \in S : ValidNow(c) /\ ~Cancelled(c) /\ CallsFor(call[c].user, call[c].poll) = {c} )
      => /\ \A c \in S : Accepted(c)
         /\ optVotes[o] = Cardinality(S)

(* ---------------------- validation and its answers --------------------- *)
\* the expiry test of the path's own validation
PathExpired(path, p, t) == IF path = "route" THEN RouteExpired(p, t) ELSE HandlerExpired(p, t)

\* the first check that fails, in the order NotAuthenticated, PollNotFound,
\* PollExpired, InvalidOption, AlreadyVoted, for a request naming both ids
FirstFailing(path, p, o, u, t, prior) ==
  IF u = NoUser THEN "NotAuthenticated"
  ELSE IF p \notin Polls THEN "PollNotFound"
  ELSE IF PathExpired(path, p, t) THEN "PollExpired"
  ELSE IF ~OptionOfPoll(o, p) THEN "InvalidOption"
  ELSE IF prior THEN "AlreadyVoted"
  ELSE "ok"

\* the answer k names the failed check e; handleVote's 'Poll or option not
\* found' names both an unknown poll and an option that is not the poll's
KindMatches(e, k) ==
  \/ k = e
  \/ k = "PollOrOptionNotFound" /\ e \in {"PollNotFound", "InvalidOption"}

\* a request of POST /api/votes/record or handleVote that names both ids
Validated(cl) == cl.path \in {"route", "handleVote"} /\ cl.poll # NoId /\ cl.option # NoId

(* C11: a request of POST /api/votes/record or of handleVote is answered with
   the first failing check in the order NotAuthenticated, PollNotFound,
   PollExpired, InvalidOption, AlreadyVoted: on arrival when one of the first
   four fails, and at its end when only AlreadyVoted does. *)
C11_ValidationOrder ==
  [][ \A c \in Calls :
        /\ ( /\ pc[c] = "idle" /\ pc'[c] # "idle" /\ Validated(call'[c])
             /\ FirstFailing(call'[c].path, call'[c].poll, call'[c].option, call'[c].user,
                              now, call'[c].prior) \notin {"ok", "AlreadyVoted"} )
           => /\ pc'[c] = "done"
              /\ KindMatches(FirstFailing(call'[c].path, call'[c].poll, call'[c].option,
                                           call'[c].user, now, call'[c].prior), outcome'[c].kind)
        /\ ( /\ pc[c] \notin {"idle", "done"} /\ pc'[c] = "done"
             /\ Validated(call[c]) /\ call[c].prior )
           => outcome'[c].kind = "AlreadyVoted" ]_vars

\* one of the checks the path makes on arrival fails for the request cl at instant t
ChecksFail(cl, t) ==
  IF cl.poll = NoId \/ cl.option = NoId \/ cl.user = NoUser THEN TRUE
  ELSE IF cl.path = "route" /\ cl.poll \notin Polls THEN TRUE
  ELSE PathValidate(cl.path, cl.poll, cl.option, t) # "ok"

\* this step ends request c, without an increment_vote call and without a write
ReturnsAtOnce(c) ==
  /\ pc'[c] = "done"
  /\ rpcResult'[c] = NoRpc
  /\ votes' = votes /\ optVotes' = optVotes /\ pending' = pending

\* a failed check of the handler ends the request at once: a check on arrival,
\* or the look-up in votes of POST /api/votes/record; and a request ended that
\* way stays ended
FailedCheckReturns(c) ==
  /\ (pc[c] = "idle" /\ pc'[c] # "idle" /\ ChecksFail(call'[c], now)) => ReturnsAtOnce(c)
  /\ ( /\ pc[c] = "precheck" /\ pc'[c] # "precheck"
       /\ UniqueConflict(call[c].user, call[c].poll) ) => ReturnsAtOnce(c)
  /\ (pc[c] = "done" /\ rpcResult[c] = NoRpc)
        => /\ pc'[c] = "done" /\ rpcResult'[c] = NoRpc
           /\ \A v \in votes' \ votes : v.id # c

\* a request of a user who had voted when it arrived never calls increment_vote
AlreadyVotedNeverCalls(c) ==
  (call'[c].path \in {"route", "handleVote"} /\ call'[c].prior)
    => pc'[c] \notin {"insert", "update", "readcount"} /\ rpcResult'[c] = NoRpc

\* a request of a user who had voted when it arrived writes no vote row
AlreadyVotedWritesNothing(c) ==
  call'[c].prior => pending'[c] = NoVote /\ \A v \in votes' : v.id # c

(* C12 as stated: whenever a validation check fails (missing ids, not
   authenticated, poll not found, poll expired, invalid option, already
   voted) the request returns at once, increment_vote is never called and no
   row is written. *)
C12_NoRpcAfterFailedCheck ==
  [][ \A c \in Calls : FailedCheckReturns(c) /\ AlreadyVotedNeverCalls(c) ]_vars

(* C12 amended: whenever a check the handler makes before its increment_vote
   call fails (missing ids, not authenticated, poll not found, poll expired,
   invalid option, and in POST /api/votes/record already voted) the request
   returns at once, increment_vote is never called and no row is written;
   handleVote makes no already-voted check and calls increment_vote, which
   writes no row for a user who has voted. *)
C12_FailedCheckReturns ==
  [][ \A c \in Calls : FailedCheckReturns(c) /\ AlreadyVotedWritesNothing(c) ]_vars

\* the route's look-up found the user's vote and ended the request
C12_Witness ==
  \E c \in Calls :
     /\ pc[c] = "done" /\ outcome[c].kind = "AlreadyVoted" /\ rpcResult[c] = NoRpc
     /\ UniqueConflict(call[c].user, call[c].poll)

(* ------------------------- races and their answers --------------------- *)
\* request c of POST /api/votes/record has passed its look-up in votes, its
\* poll is open, and by now another request's vote for its (user, poll) is
\* committed
LostRace(c) ==
  /\ call[c].path = "route"
  /\ pc[c] \in {"rpc", "insert"}
  /\ UniqueConflict(call[c].user, call[c].poll)
  /\ ~RpcExpired(call[c].poll, now)

(* C13: a request whose pre-check found no vote, while another request for the
   same (user, poll) has committed before its increment_vote call reaches the
   votes table, is answered AlreadyVoted and is not reported as success: the
   call's next step either goes on to the INSERT or ends with AlreadyVoted,
   and the INSERT ends with AlreadyVoted. *)
C13_RaceAnsweredAlreadyVoted ==
  [][ \A c \in Calls :
        (LostRace(c) /\ pc'[c] # pc[c])
          => \/ pc[c] = "rpc" /\ pc'[c] = "insert"
             \/ pc'[c] = "done" /\ outcome'[c].kind = "AlreadyVoted" ]_vars

\* SQLSTATEs under which a violation of UNIQUE(user_id, poll_id) reaches the
\* caller: 23505 itself, or the exception increment_vote raises in its place
UniqueViolationCodes == {"23505", "P0001"}

(* C14: a request whose increment_vote call failed on UNIQUE(user_id, poll_id)
   is answered AlreadyVoted, never with a generic or internal error. *)
C14_UniqueViolationIsAlreadyVoted ==
  \A c \in Calls :
    (pc[c] = "done" /\ rpcResult[c].err \in UniqueViolationCodes)
      => outcome[c].kind = "AlreadyVoted"

(* C15: a request whose vote transaction failed with a serialization failure
   or a deadlock is answered TransientConflict, a kind of its own. *)
C15_TransientConflictKind ==
  \A c \in Calls :
    (pc[c] = "done" /\ rpcResult[c].err \in TransientErrors)
      => outcome[c].kind = "TransientConflict"

(* ------------------------------- retries ------------------------------- *)
\* errors after which a caller re-issues the request: a cancel, a transient
\* failure, a response that never came
RetriedErrors == {"57014", "fetch_failed"} \cup TransientErrors

\* the attempts at CastVote(p, o, u) so far
Attempts(u, p, o) == {c \in CallsFor(u, p) : call[c].option = o}

\* CastVote(p, o, u), a vote for an option of the open poll p, was re-issued
\* after a failure of that kind, and every attempt is over
Retried(u, p, o) ==
  /\ OptionOfPoll(o, p) /\ ~RpcExpired(p, now)
  /\ \A c \in Attempts(u, p, o) : pc[c] = "done"
  /\ \E d \in Attempts(u, p, o) : rpcResult[d].err \in RetriedErrors
  /\ Cardinality(Attempts(u, p, o)) > 1

(* C16: when CastVote(p, o, u) is re-issued after a transient failure or a
   cancel that may have committed, (u, p) has at most one vote row, the
   option's counter does not exceed the number of its vote rows, at most one
   attempt is accepted, and every attempt that arrived after the vote was
   committed, and did not fail that way itself, is answered AlreadyVoted. *)
C16_RetryIdempotent ==
  \A u \in Users, p \in Polls, o \in Options :
    Retried(u, p, o) =>
      /\ Cardinality(VotesOf(u, p)) <= 1
      /\ optVotes[o] <= Cardinality(RowsOf(o))
      /\ Cardinality({c \in Attempts(u, p, o) : Accepted(c)}) <= 1
      /\ \A c \in Attempts(u, p, o) :
           (call[c].prior /\ rpcResult[c].err \notin RetriedErrors)
             => outcome[c].kind = "AlreadyVoted"

(* ------------------------------ error texts ---------------------------- *)
\* The texts the application itself defines for a failed vote request:
\* 'Poll ID and Option ID are required' (and the id messages of
\* poll-validation.ts), 'Authentication required', 'Poll not found', 'Poll
\* has expired', 'Invalid option for this poll', 'Poll or option not found',
\* 'You have already voted on this poll', 'Internal server error', and the
\* user messages of poll-errors.ts.
AppMessages ==
  {"MissingIds", "NotAuthenticated", "PollNotFound", "PollExpired", "InvalidOption",
   "PollOrOptionNotFound", "AlreadyVoted", "InternalError", "DuplicateKey",
   "RelatedNotFound", "RequiredMissing", "NotFound", "DatabaseError", "UnexpectedError"}

(* C17: every request that ends in a failure is answered with one of the
   application's own texts, whatever storage error lies behind it; the
   message of that error is never the answer. *)
C17_FixedErrorTexts ==
  \A c \in Calls :
    (pc[c] = "done" /\ ~Accepted(c)) => outcome[c].kind \in AppMessages

\* a storage error with a text of its own reached handleError, which answered
\* with one of its user messages
C17_Witness ==
  \E c \in Calls :
     /\ pc[c] = "done" /\ call[c].path # "route"
     /\ rpcResult[c].err \in {"23505", "42501", "40P01"}
     /\ outcome[c].kind \in {"DuplicateKey", "DatabaseError"}

(* C18: what the model's users (none of them an admin) can do never updates
   and never removes a vote row: every row of votes is there, unchanged, after
   every step. *)
C18_VotesOnlyGrow ==
  [][ \A v \in votes : v \in votes' ]_vars

(* C19: a vote row created by a request carries the user id of the session
   that sent the request; in particular no request without a session and no
   request naming another user in its body leaves a row. *)
C19_VoteCarriesCallerId ==
  \A c \in Calls : \A v \in votes :
    v.id = c => v.user = call[c].session

\* the outcome POST /api/votes/record owes a request on arrival: the first of
\* the checks on the ids, the caller s, the poll and the option that fails
ArrivalOutcome(p, o, s, t) ==
  IF p = NoId \/ o = NoId THEN "MissingIds"
  ELSE FirstFailing("route", p, o, s, t, FALSE)

\* the request c has left a row among the rows vs
RecordedIn(c, vs) == \E v \in vs : v.id = c

\* another request has left a row for the user and poll of request c
VotedElsewhere(c, vs) ==
  \E v \in vs : v.id # c /\ v.user = call[c].user /\ v.poll = call[c].poll

(* C20: POST /api/votes/record answers with the status of the request's
   outcome.  On arrival: 400 without pollId or optionId, else 401 for a caller
   who is not signed in, else 404 for an unknown poll, else 410 for an expired
   poll, else 400 for an option of another poll.  At the end of a request that
   passed these checks: 201 only if the request recorded its vote and always
   if it did so without an error, 409 if the user's vote for the poll was
   recorded by another request, 500 for every other storage error. *)
C20_StatusOfOutcome ==
  [][ \A c \in Calls : call'[c].path = "route" =>
        /\ (pc[c] = "idle" /\ pc'[c] # "idle")
             => LET e == ArrivalOutcome(call'[c].poll, call'[c].option, call'[c].session, now) IN
                  e # "ok" => /\ pc'[c] = "done"
                              /\ RouteStatus(outcome'[c].kind) = RouteStatus(e)
        /\ (pc[c] \notin {"idle", "done"} /\ pc'[c] = "done")
             => LET st == RouteStatus(outcome'[c].kind)
                    err == rpcResult'[c].err
                IN /\ st = 201 => RecordedIn(c, votes')
                   /\ (err = "none" /\ RecordedIn(c, votes')) => st = 201
                   /\ ( /\ ~RecordedIn(c, votes') /\ VotedElsewhere(c, votes')
                        /\ ~rpcResult'[c].txExpired
                        /\ err \in {"none"} \cup UniqueViolationCodes ) => st = 409
                   /\ err \notin {"none"} \cup UniqueViolationCodes => st = 500 ]_vars

(* ------------------- votePoll before and after the refactor ------------- *)
\* The original votePoll for the session s and the `error` err of its
\* increment_vote call: it throws 'You must be logged in to vote' outside
\* its try block, and answers every storage error but 'already voted' with
\* 'Failed to submit vote'.
OriginalVotePoll(s, err) ==
  IF s = NoUser THEN [shape |-> "thrown", success |-> FALSE, error |-> "MustBeLoggedIn"]
  ELSE IF err = "none" THEN [shape |-> "returned", success |-> TRUE, error |-> "none"]
  ELSE IF err = "P0001" THEN [shape |-> "returned", success |-> FALSE, error |-> "AlreadyVoted"]
  ELSE [shape |-> "returned", success |-> FALSE, error |-> "FailedToSubmitVote"]

\* What votePollOperation hands back for the outcome out: everything runs
\* inside its try block, so it always returns an ApiResponse.
VotePollResponse(out) ==
  IF out.kind = "accepted" THEN [shape |-> "returned", success |-> TRUE, error |-> "none"]
  ELSE [shape |-> "returned", success |-> FALSE, error |-> out.kind]

(* C21: for a request naming both ids, the refactored votePoll answers as the
   original votePoll does for the same session and the same result of the
   same increment_vote call (thrown or returned, success flag, error text),
   and like the original it writes nothing for a caller without a session. *)
C21_VotePollCompatible ==
  \A c \in Calls :
    (pc[c] = "done" /\ call[c].path = "votePoll" /\ call[c].poll # NoId /\ call[c].option # NoId)
      => /\ VotePollResponse(outcome[c]) = OriginalVotePoll(call[c].session, rpcResult[c].err)
         /\ Recorded(c) => call[c].session # NoUser

(* C22: a finished request was reported as accepted exactly when its own
   increment_vote call committed a vote row; a call that came back without an
   error but with success = FALSE is one that committed none. *)
C22_AcceptedIffCommitted ==
  \A c \in Calls :
    pc[c] = "done" => (Accepted(c) <=> Recorded(c))

\* the request's transaction raised its option's counter
Raised(c) == Recorded(c) /\ UpdateReachesRow(schema, call[c].user, call[c].option)

(* C23: in a sequential execution, an accepted vote of handleVote or of
   handleVoteWithCache whose transaction raised the option's counter reports
   as newVoteCount the value that transaction wrote, the counter before the
   call plus 1, also when a vote for the same option was accepted less than
   CACHE_TTL before. *)
C23_NewCountIsIncremented ==
  \A c \in Calls :
    (pc[c] = "done" /\ call[c].path \in HandlerPaths /\ Accepted(c) /\ Raised(c))
      => outcome[c].newCount = rpcResult[c].count

\* what handleVote, which has no cache, decides for the request cl on arrival
\* at instant t
HandleVoteOnArrival(cl, t) == Validate("handleVote", cl.poll, cl.option, cl.session, NoUser, t)

\* what handleVote answers once its increment_vote call is over with res
HandleVoteAfterRpc(res) ==
  IF res.err = "none" THEN "accepted" ELSE ClientErrorKind("handleVote", res.err)

(* C24: handleVoteWithCache decides as handleVote does, from the request and
   the storage alone, whatever voteCountCache holds: on arrival it rejects
   exactly what handleVote's validation rejects, its answer after the
   increment_vote call is the one handleVote gives for the call's result, the
   step that reads the cache writes neither votes nor a counter, and no
   other step of the request touches the cache. *)
C24_DecisionIgnoresCache ==
  [][ \A c \in Calls : call'[c].path = "handleVoteWithCache" =>
        /\ (pc[c] = "idle" /\ pc'[c] # "idle")
             => LET v == HandleVoteOnArrival(call'[c], now) IN
                  /\ (v # "ok") = (pc'[c] = "done")
                  /\ v # "ok" => outcome'[c].kind = v
                  /\ UNCHANGED <<votes, optVotes, voteCountCache>>
        /\ (pc[c] \notin {"idle", "done"} /\ pc'[c] = "done")
             => /\ outcome'[c].kind = HandleVoteAfterRpc(rpcResult'[c])
                /\ Accepted(c)' <=> rpcResult'[c].err = "none"
        /\ (pc[c] = "cachedcount" /\ pc'[c] # pc[c])
             => UNCHANGED <<votes, optVotes, pending, rpcResult>>
        /\ (pc[c] \notin {"cachedcount"} /\ pc'[c] # pc[c])
             => UNCHANGED voteCountCache ]_vars

\* an accepted request of handleVoteWithCache whose transaction raised the
\* counter while the cache held a fresh entry of another value: the cache
\* shaped the answer's count, and the decision was taken all the same
C24_Witness ==
  \E c \in Calls :
    /\ pc[c] = "done" /\ call[c].path = "handleVoteWithCache"
    /\ Accepted(c) /\ Raised(c)
    /\ CacheFresh(call[c].option, now)
    /\ outcome[c].newCount # rpcResult[c].count

(* C25: the step that commits a request's vote adds exactly one row, the
   request's (user, poll, option), to votes and raises that option's counter
   by exactly 1; every other row and every other counter stay as they were. *)
C25_CastVoteFrame ==
  [][ \A c \in Calls :
        (~RecordedIn(c, votes) /\ RecordedIn(c, votes'))
          => /\ votes' = votes \cup {[id |-> c, user |-> call[c].user, poll |-> call[c].poll,
                                        option |-> call[c].option]}
             /\ optVotes' = [optVotes EXCEPT ![call[c].option] = optVotes[call[c].option] + 1] ]_vars

\* the step commits the vote of a request for option o
CommitsVoteFor(o) ==
  \E c \in Calls : ~RecordedIn(c, votes) /\ RecordedIn(c, votes') /\ call[c].option = o

(* C26: an option's counter changes only in a step that commits a vote for
   the option; an option row that poll creation or poll update inserts starts
   with counter 0; and a step that changes option rows changes only rows of
   one poll and moves no row to another poll. *)
C26_CounterOnlyByVote ==
  [][ /\ \A o \in DOMAIN optVotes :
           /\ o \in DOMAIN optVotes'
           /\ optVotes'[o] # optVotes[o] => CommitsVoteFor(o)
      /\ \A o \in DOMAIN optVotes' \ DOMAIN optVotes : optVotes'[o] = 0
      /\ \E p \in Polls \cup {NewPoll} : \A o \in AllOptions :
           optRows'[o] # optRows[o]
             => /\ optRows'[o].poll = p
                /\ optRows[o] # NoRow => optRows[o].poll = p ]_vars

\* an option that has votes got a new text, and an inserted option has none
C26_Witness ==
  /\ \E o \in Options : optVotes[o] > 0 /\ optRows[o].text \in Texts
  /\ \E n \in AllOptions \ Options : optRows[n] # NoRow /\ optVotes[n] = 0

(* C27: a request that has ended keeps its outcome for ever, and a request of
   handleVote ends with a response, a success or an error, never with a
   thrown exception. *)
C27_HandleVoteAlwaysAnswers ==
  [][ \A c \in Calls :
        /\ pc[c] = "done" => (pc'[c] = "done" /\ outcome'[c] = outcome[c])
        /\ (pc'[c] = "done" /\ call'[c].path = "handleVote")
             => outcome'[c].kind \notin {"none", "Thrown"} ]_vars

\* expiry as the claim states it: expiresAt is set and expiresAt <= now
ExpiredAt(p, t) == expiresAt[p] # NoTime /\ expiresAt[p] <= t

(* C28: a request of POST /api/votes/record or of handleVote by a signed-in
   caller for an option of an existing poll is rejected on arrival as
   PollExpired exactly when the poll's expiresAt is set and expiresAt <= now,
   the same on both paths. *)
C28_SameExpiryDecision ==
  [][ \A c \in Calls :
        ( /\ pc[c] = "idle" /\ pc'[c] # "idle"
          /\ call'[c].path \in {"route", "handleVote"}
          /\ call'[c].user # NoUser
          /\ call'[c].poll \in Polls /\ OptionOfPoll(call'[c].option, call'[c].poll) )
        => ( (pc'[c] = "done" /\ outcome'[c].kind = "PollExpired")
               <=> ExpiredAt(call'[c].poll, now) ) ]_vars

(* C29: a request of POST /api/votes/record whose increment_vote call has
   recorded the vote and that stands before the read of the counter ends, in
   its next step, with status 201, whether the read succeeds or not, and its
   newVoteCount is then the counter it read or null. *)
C29_ReadFailureStillSuccess ==
  [][ \A c \in Calls :
        ( /\ call[c].path = "route" /\ pc[c] = "readcount" /\ Recorded(c)
          /\ pc'[c] # pc[c] )
        => /\ pc'[c] = "done"
           /\ RouteStatus(outcome'[c].kind) = 201
           /\ outcome'[c].newCount \in {NullCount, optVotes[call[c].option]} ]_vars

\* With the security function, whose commit always raises the counter, a
\* recorded vote of the route was answered as accepted with newVoteCount
\* null: the read had failed
C29_Witness ==
  \E c \in Calls :
    /\ schema = "security"
    /\ pc[c] = "done" /\ call[c].path = "route" /\ Recorded(c)
    /\ optVotes[call[c].option] > 0
    /\ Accepted(c) /\ outcome[c].newCount = NullCount

\* the calls of identifier id that were admitted in the window of length
\* WindowMs that ends at instant t
AdmittedIn(log, t) ==
  {i \in DOMAIN log : ~log[i].limited /\ log[i].time > t - WindowMs /\ log[i].time <= t}

(* C30: for every identifier and every window of length windowMs, at most
   `limit` calls of the identifier were admitted in the window; a call is
   limited exactly when `limit` calls of its own identifier were admitted in
   the window that ends with it, whatever the other identifiers did; and a
   limited call stores nothing. *)
C30_AtMostLimitPerWindow ==
  [][ \A id \in Identifiers :
        /\ \A t \in 0..MaxRateNow : Cardinality(AdmittedIn(served'[id], t)) <= RateLimit
        /\ Len(served'[id]) > Len(served[id])
             => LET this == served'[id][Len(served'[id])] IN
                  /\ this.limited <=> Cardinality(AdmittedIn(served[id], now)) >= RateLimit
                  /\ this.limited => requests' = requests
                  /\ \A other \in Identifiers \ {id} :
                       requests'[other] = requests[other] /\ served'[other] = served[other] ]_vars

\* an identifier was limited after `limit` admitted calls and admitted again
\* once the window had moved on, while the other identifier was being served
C30_Witness ==
  \E id \in Identifiers :
    /\ \E i \in DOMAIN served[id], j \in DOMAIN served[id] :
         i < j /\ served[id][i].limited /\ ~served[id][j].limited
    /\ \E other \in Identifiers \ {id} : served[other] # <<>>
====
